---- MODULE Spec2Model ----
(***************************************************************************)
(* Model of libkb/keyring.go: the per-user secret keyring cache            *)
(* (Keyrings.skbMap guarded by the embedded sync.Mutex), the secret key    *)
(* resolver (GetSecretKey / GetSecretKeyLocked / GetLockedLocalSecretKey), *)
(* the PGP keyring file (KeyringFile.Load / Index / LoadAndIndex) and the  *)
(* aggregate of public and secret files (Keyrings.Load, FindKey, KeysById, *)
(* KeysByIdUsage, DecryptionKeys).                                         *)
(***************************************************************************)
EXTENDS Integers, Sequences, FiniteSets, TLC

(* ------------------------------ bounds --------------------------------- *)

\* number of SKBKeyringFile objects NewSKBKeyringFile may construct in a run
MaxRefs == 2
\* longest entity list a keyring file on disk parses to
MaxEntities == 2
\* longest list of public files and of secret files of a Keyrings
MaxFiles == 2
\* number of times openpgp.ReadKeyRing may build a new entity list in a run
MaxParses == 2

Threads == {1, 2}

\* usernames handed to LoadSKBKeyring; "" is the empty username
UserNames == {"", "a"}
\* names of the users a SecretKeyArg can be about
SubjectNames == {"a"}

VARIABLES
    skbMap,      \* Keyrings.skbMap: username -> *SKBKeyringFile (NilRef: no entry)
    mu,          \* the sync.Mutex embedded in the shared *Keyrings: 0 free, else holder
    gKeyrings,   \* Global.Keyrings is non-nil
    nextRef,     \* identity of the next object NewSKBKeyringFile returns
    th,          \* per thread: position in the call and its locals
    crashed,     \* the runtime stopped the process (unsynchronised map access)
    disk,        \* the PGP keyring file on disk: its status and what it parses to
    Entities,    \* KeyringFile.Entities
    indexId,     \* KeyringFile.indexId
    indexFingerprint, \* KeyringFile.indexFingerprint
    gen,         \* which parse built the objects of Entities (0: none yet)
    lastOp,      \* the last KeyringFile operation that ran
    kfErr,       \* and the error it returned
    rings,       \* Keyrings.Public and Keyrings.Secret: the files of the aggregate
    ringOp       \* the last operation on the aggregate, its arguments and result

cacheVars == <<skbMap, mu, gKeyrings, nextRef, th, crashed>>
fileVars == <<disk, Entities, indexId, indexFingerprint, gen, lastOp, kfErr>>
ringVars == <<rings, ringOp>>
vars == <<skbMap, mu, gKeyrings, nextRef, th, crashed,
          disk, Entities, indexId, indexFingerprint, gen, lastOp, kfErr,
          rings, ringOp>>

(* --------------------------- SKB keyring files -------------------------- *)

\* a *SKBKeyringFile: its identity and whether it was loaded from a missing file
NilRef == [id |-> 0, empty |-> TRUE]
Ref(n, e) == [id |-> n, empty |-> e]

\* key identifiers the collaborators can name; "k3" is in no keyring
KIDs == {"k1", "k2", "k3"}
\* what the per-user keyring file on disk holds
DiskKids == {"k1", "k2"}

\* the keys held by a loaded per-user keyring
Content(f) == IF f = NilRef \/ f.empty THEN {} ELSE DiskKids

\* SKBKeyringFile.LookupByKid: the key stored under kid, "none" when absent
LookupByKid(f, kid) == IF kid \in Content(f) THEN kid ELSE "none"

\* SKBKeyringFile.SearchWithComputedKeyFamily: a key of the keyring that is
\* active in the computed key family, "none" when there is none
SearchWithComputedKeyFamily(f, ckf) ==
    LET m == Content(f) \cap ckf.active
    IN IF m = {} THEN "none"
       ELSE IF "k1" \in m THEN "k1" ELSE "k2"

\* a *ComputedKeyFamily: what GetActiveSibkeyKidForCurrentDevice answers
\* ("err": an error, "nil": an empty kid) and which keys are active
NilCkf == [nil |-> TRUE, dev |-> "nil", active |-> {}]
Ckfs == [nil : {FALSE}, dev : {"err", "nil", "k1", "k3"}, active : SUBSET DiskKids]

(* ------------------------------ SecretKeyArg ---------------------------- *)

\* the reasons a key is asked for (SecretKeyArg.Reason)
Reasons == {"sign", "decrypt"}

SecretKeyArgs ==
    [All : BOOLEAN, DeviceKey : BOOLEAN, SyncedPGPKey : BOOLEAN,
     SearchKey : BOOLEAN, Reason : Reasons, Me : {"nil"} \cup SubjectNames]
NoArg == [All |-> FALSE, DeviceKey |-> FALSE, SyncedPGPKey |-> FALSE,
          SearchKey |-> FALSE, Reason |-> "", Me |-> "nil"]

\* fault: the device key is used whether or not the request wants it
UseDeviceKeyAlways(s) == TRUE
\* fault: the local search runs whether or not the request wants it
SearchForKeyAlways(s) == TRUE
\* lines 331-333
UseDeviceKey(s) == s.All \/ s.DeviceKey
SearchForKey(s) == s.All \/ s.SearchKey
UseSyncedPGPKey(s) == s.All \/ s.SyncedPGPKey


(* ------------------------------ thread state ---------------------------- *)

\* a thread that is in no call
Idle ==
    [pc |-> "idle", op |-> "none", un |-> "", ska |-> NoArg, kmu |-> "none",
     f |-> NilRef, err |-> "nil", hit |-> FALSE, first |-> FALSE,
     loaded |-> "none", inserted |-> FALSE,
     ckf |-> NilCkf, sync |-> "", asked |-> {}, ret |-> "none", which |-> "",
     rerr |-> "nil", src |-> "none", key |-> "none", kerr |-> "nil",
     resolves |-> 0, prompts |-> 0, preason |-> "", pwhich |-> "", uout |-> "none"]

DirectOps == {"LoadSKBKeyring", "GlobalLoad"}
ResolverOps == {"GetSecretKey"}

Set(t, r) == th' = [th EXCEPT ![t] = r]

(* ------------------------- Keyrings.LoadSKBKeyring ---------------------- *)

\* os.IsNotExist(err)
IsNotExist(e) == e = "ENOENT"

\* line 144: the outcomes of f.LoadAndIndex() after which the file is cached
\* fault: a missing file is treated like any other load error
CacheableOkOnly(e) == e = "nil"
Cacheable(e) == e = "nil" \/ IsNotExist(e)

\* lines 139-142: what the lookup under the lock decides
\*   "hit": return the cached file; "nouser": NoUsernameError; "load": load the file
\* fault: the length of the username is not checked
LookupBranchNoCheck(m, un) == IF m[un] # NilRef THEN "hit" ELSE "load"
LookupBranch(m, un) ==
    IF m[un] # NilRef THEN "hit"
    ELSE IF un = "" THEN "nouser"
    ELSE "load"

\* a direct call: k.LoadSKBKeyring(un) on the shared *Keyrings
CallLoadSKBKeyring(t, un) ==
    /\ ~crashed /\ gKeyrings
    /\ th[t].pc = "idle"
    /\ Set(t, [Idle EXCEPT !.pc = "lock", !.op = "LoadSKBKeyring", !.un = un,
                           !.first = (skbMap[un] = NilRef)])
    /\ UNCHANGED <<skbMap, mu, gKeyrings, nextRef, crashed>>
    /\ UNCHANGED <<fileVars, ringVars>>

\* Global.LoadSKBKeyring(name): NoKeyringsError when g.Keyrings is nil
CallGlobalLoad(t, un) ==
    /\ ~crashed
    /\ th[t].pc = "idle"
    /\ IF gKeyrings
       THEN Set(t, [Idle EXCEPT !.pc = "lock", !.op = "GlobalLoad", !.un = un,
                                !.first = (skbMap[un] = NilRef)])
       ELSE Set(t, [Idle EXCEPT !.pc = "done", !.op = "GlobalLoad", !.un = un,
                                !.err = "NoKeyringsError"])
    /\ UNCHANGED <<skbMap, mu, gKeyrings, nextRef, crashed>>
    /\ UNCHANGED <<fileVars, ringVars>>

\* k.Lock(): the shared mutex for a call through the *Keyrings pointer, the
\* mutex of the receiver's copy for a call made inside the resolver
Lock(t) ==
    /\ ~crashed
    /\ th[t].pc = "lock"
    /\ IF th[t].op \in DirectOps
       THEN /\ mu = 0
            /\ mu' = t
            /\ Set(t, [th[t] EXCEPT !.pc = "lookup"])
       ELSE /\ th[t].kmu = "free"
            /\ mu' = mu
            /\ Set(t, [th[t] EXCEPT !.pc = "lookup", !.kmu = "held"])
    /\ UNCHANGED <<skbMap, gKeyrings, nextRef, crashed>>
    /\ UNCHANGED <<fileVars, ringVars>>

\* lines 139-142
Lookup(t) ==
    /\ ~crashed
    /\ th[t].pc = "lookup"
    /\ LET b == LookupBranch(skbMap, th[t].un)
       IN Set(t, [th[t] EXCEPT
                    !.f = skbMap[th[t].un],
                    !.hit = (b = "hit"),
                    !.err = IF b = "nouser" THEN "NoUsernameError" ELSE "nil",
                    !.pc = IF b = "load" THEN "load" ELSE "unlock"])
    /\ UNCHANGED <<skbMap, mu, gKeyrings, nextRef, crashed>>
    /\ UNCHANGED <<fileVars, ringVars>>

\* lines 143-144: f = NewSKBKeyringFile(...); err = f.LoadAndIndex()
\* e: what LoadAndIndex returns (nil, a missing file, another I/O or format error)
LoadFile(t, e) ==
    /\ ~crashed
    /\ th[t].pc = "load"
    /\ nextRef <= MaxRefs
    /\ Set(t, [th[t] EXCEPT
                 !.f = Ref(nextRef, e # "nil"),
                 !.err = e,
                 !.loaded = e,
                 !.pc = IF Cacheable(e) THEN "insert" ELSE "unlock"])
    /\ nextRef' = nextRef + 1
    /\ UNCHANGED <<skbMap, mu, gKeyrings, crashed>>
    /\ UNCHANGED <<fileVars, ringVars>>

\* lines 145-146: err = nil; k.skbMap[un] = f
Insert(t) ==
    /\ ~crashed
    /\ th[t].pc = "insert"
    /\ skbMap' = [skbMap EXCEPT ![th[t].un] = th[t].f]
    /\ Set(t, [th[t] EXCEPT !.err = "nil", !.inserted = TRUE, !.pc = "unlock"])
    /\ UNCHANGED <<mu, gKeyrings, nextRef, crashed>>
    /\ UNCHANGED <<fileVars, ringVars>>

\* fault: LoadSKBKeyring returns with the mutex still locked
UnlockForgotten(t) ==
    /\ ~crashed
    /\ th[t].pc = "unlock"
    /\ Set(t, [th[t] EXCEPT !.pc = IF th[t].op \in DirectOps THEN "done" ELSE "local"])
    /\ UNCHANGED <<skbMap, mu, gKeyrings, nextRef, crashed>>
    /\ UNCHANGED <<fileVars, ringVars>>

\* the deferred k.Unlock() and the return
Unlock(t) ==
    /\ ~crashed
    /\ th[t].pc = "unlock"
    /\ IF th[t].op \in DirectOps
       THEN /\ mu' = 0
            /\ Set(t, [th[t] EXCEPT !.pc = "done"])
       ELSE /\ mu' = mu
            /\ Set(t, [th[t] EXCEPT !.pc = "local", !.kmu = "free"])
    /\ UNCHANGED <<skbMap, gKeyrings, nextRef, crashed>>
    /\ UNCHANGED <<fileVars, ringVars>>

\* two threads inside LoadSKBKeyring at once, one of them writing the map: the
\* Go runtime may detect the unsynchronised access and stop the process
MapFault ==
    /\ ~crashed
    /\ \E t1, t2 \in Threads :
          /\ t1 # t2
          /\ th[t1].pc = "insert"
          /\ th[t2].pc \in {"lookup", "insert"}
    /\ crashed' = TRUE
    /\ UNCHANGED <<skbMap, mu, gKeyrings, nextRef, th>>
    /\ UNCHANGED <<fileVars, ringVars>>

(* ------------------------------ the resolver ---------------------------- *)

\* GetSecretKey and GetSecretKeyLocked have value receivers (k Keyrings): the
\* call copies the Keyrings struct, its embedded sync.Mutex included, in the
\* state the mutex has at that moment; a copy taken while the mutex is held
\* is a locked mutex nobody will unlock
CopyMutex(m) == IF m = 0 THEN "free" ELSE "stuck"

CallGetSecretKey(t, s) ==
    /\ ~crashed /\ gKeyrings
    /\ th[t].pc = "idle"
    /\ Set(t, [Idle EXCEPT !.pc = "me", !.op = "GetSecretKey", !.ska = s,
                           !.kmu = CopyMutex(mu), !.resolves = 1])
    /\ UNCHANGED <<skbMap, mu, gKeyrings, nextRef, crashed>>
    /\ UNCHANGED <<fileVars, ringVars>>

\* lines 240-244: LoadMe when the request names no user; then
\* GetLockedLocalSecretKey calls k.LoadSKBKeyring(me.name) on its copy of k
\* r: what LoadMe returns, an error or the user
ResolveMe(t, r) ==
    /\ ~crashed
    /\ th[t].pc = "me"
    /\ IF th[t].ska.Me = "nil"
       THEN IF r = "err"
            THEN Set(t, [th[t] EXCEPT
                           !.rerr = "LoadMeError",
                           !.asked = {"LoadMe"},
                           !.pc = "prompt"])
            ELSE Set(t, [th[t] EXCEPT
                           !.ska = [@ EXCEPT !.Me = r],
                           !.asked = {"LoadMe"},
                           !.un = r,
                           !.first = (skbMap[r] = NilRef),
                           !.pc = "lock"])
       ELSE Set(t, [th[t] EXCEPT
                      !.un = th[t].ska.Me,
                      !.first = (skbMap[th[t].ska.Me] = NilRef),
                      !.pc = "lock"])
    /\ UNCHANGED <<skbMap, mu, gKeyrings, nextRef, crashed>>
    /\ UNCHANGED <<fileVars, ringVars>>

\* lines 296-309: the key of the current device, "none" when it is not wanted,
\* not known to the key family or not in the keyring
DeviceKey(s, f, c) ==
    IF ~UseDeviceKey(s) THEN "none"
    ELSE IF c.dev = "err" THEN "none"
    ELSE IF c.dev # "nil" THEN LookupByKid(f, c.dev)
    ELSE "none"

\* fault: the local search runs before the device key is looked up
LocalKeySearchFirst(s, f, c) ==
    IF SearchForKey(s) /\ SearchWithComputedKeyFamily(f, c) # "none"
    THEN SearchWithComputedKeyFamily(f, c)
    ELSE DeviceKey(s, f, c)
\* lines 311-315: the device key, else the key the local search finds
LocalKey(s, f, c) ==
    IF DeviceKey(s, f, c) = "none" /\ SearchForKey(s)
    THEN SearchWithComputedKeyFamily(f, c)
    ELSE DeviceKey(s, f, c)

\* which collaborators lines 291-314 consult for a loaded keyring
LocalAsked(s, f, c) ==
    {"ckf"}
    \cup (IF ~c.nil /\ UseDeviceKey(s) THEN {"device"} ELSE {})
    \cup (IF ~c.nil /\ DeviceKey(s, f, c) = "none" /\ SearchForKey(s)
          THEN {"search"} ELSE {})

\* which step of lines 296-314 produced the key
LocalSrc(s, f, c) ==
    IF LocalKey(s, f, c) = "none" THEN "none"
    ELSE IF DeviceKey(s, f, c) # "none" THEN "device"
    ELSE "local"

\* fault: the result of LoadSKBKeyring is used whatever its error
KeyringUnavailableNever(err, f) == FALSE
\* line 282: err != nil || keyring == nil
KeyringUnavailable(err, f) == err # "nil" \/ f = NilRef

\* GetLockedLocalSecretKey after LoadSKBKeyring returned (lines 282-315) and
\* the test of its result in GetSecretKeyLocked (lines 246-249)
\* c: what me.GetComputedKeyFamily() returns
Local(t, c) ==
    /\ ~crashed
    /\ th[t].pc = "local"
    /\ IF KeyringUnavailable(th[t].err, th[t].f)
       THEN Set(t, [th[t] EXCEPT !.pc = "synced"])
       ELSE LET r == IF c.nil THEN "none" ELSE LocalKey(th[t].ska, th[t].f, c)
            IN Set(t, [th[t] EXCEPT
                         !.ckf = c,
                         !.asked = @ \cup LocalAsked(th[t].ska, th[t].f, c),
                         !.ret = r,
                         !.src = IF c.nil THEN "none"
                                 ELSE LocalSrc(th[t].ska, th[t].f, c),
                         !.pc = IF r # "none" THEN "prompt" ELSE "synced"])
    /\ UNCHANGED <<skbMap, mu, gKeyrings, nextRef, crashed>>
    /\ UNCHANGED <<fileVars, ringVars>>

\* fault: no key and no error
NoKeyErrNever(ret, err) == err
\* lines 260-262
NoKeyErr(ret, err) == IF ret = "none" THEN "NoSecretKeyError" ELSE err

\* fault: the error of the provider does not end the call
SyncedFailedNever(r) == FALSE
\* lines 253-255: err != nil after GetSyncedSecretKey
SyncedFailed(r) == r = "err"

\* lines 251-263: the synced key, and NoSecretKeyError when there is no key
\* r: what ska.Me.GetSyncedSecretKey() returns: an error, no key, the key
Synced(t, r) ==
    /\ ~crashed
    /\ th[t].pc = "synced"
    /\ IF ~UseSyncedPGPKey(th[t].ska)
       THEN Set(t, [th[t] EXCEPT !.rerr = NoKeyErr("none", "nil"),
                                 !.pc = "prompt"])
       ELSE IF SyncedFailed(r)
            THEN Set(t, [th[t] EXCEPT
                           !.asked = @ \cup {"synced"},
                           !.sync = r,
                           !.rerr = "SyncError",
                           !.pc = "prompt"])
            ELSE LET k == IF r = "err" THEN "none" ELSE r
                 IN Set(t, [th[t] EXCEPT
                           !.asked = @ \cup {"synced"},
                           !.sync = r,
                           !.ret = k,
                           !.src = IF k = "none" THEN "none" ELSE "synced",
                           !.which = IF k # "none"
                                     THEN "your Keybase.io passphrase" ELSE @,
                           !.rerr = NoKeyErr(k, "nil"),
                           !.pc = "prompt"])
    /\ UNCHANGED <<skbMap, mu, gKeyrings, nextRef, crashed>>
    /\ UNCHANGED <<fileVars, ringVars>>

\* fault: the unlock is asked for whatever the resolution gave
UnlockAlways(err, skb) == TRUE
\* line 342: err == nil && skb != nil
UnlockWanted(err, skb) == err = "nil" /\ skb # "none"

\* lines 342-346: GetSecretKey prompts for the passphrase and unlocks the key
\* u: what skb.PromptAndUnlock returns
Prompt(t, u) ==
    /\ ~crashed
    /\ th[t].pc = "prompt"
    /\ IF UnlockWanted(th[t].rerr, th[t].ret)
       THEN Set(t, [th[t] EXCEPT
                      !.prompts = @ + 1,
                      !.preason = th[t].ska.Reason,
                      !.pwhich = th[t].which,
                      !.uout = u,
                      !.key = IF u = "ok" THEN th[t].ret ELSE "none",
                      !.kerr = IF u = "ok" THEN "nil" ELSE "UnlockError",
                      !.pc = "done"])
       ELSE Set(t, [th[t] EXCEPT !.kerr = th[t].rerr, !.pc = "done"])
    /\ UNCHANGED <<skbMap, mu, gKeyrings, nextRef, crashed>>
    /\ UNCHANGED <<fileVars, ringVars>>

\* the caller takes the result; the thread is free for its next call
Return(t) ==
    /\ ~crashed
    /\ th[t].pc = "done"
    /\ Set(t, Idle)
    /\ UNCHANGED <<skbMap, mu, gKeyrings, nextRef, crashed>>
    /\ UNCHANGED <<fileVars, ringVars>>

(* ------------------------------ KeyringFile ----------------------------- *)

\* fingerprints of public keys; 0 stands for a nil *PublicKey
Fps == {1, 2, 3}
PubKeys == {0} \cup Fps

\* PublicKey.KeyIdString(): the key id is the low 64 bits of the fingerprint,
\* so different fingerprints can have the same key id
KeyIdString(fp) == fp % 2

\* an openpgp.Entity as the index reads it: its primary key and its subkeys;
\* the keys 1 and 3 have the same key id, and a subkey can repeat a primary key
EntityValues ==
    [primary : PubKeys \ {2}, subkeys : {<<>>} \cup {<<k>> : k \in PubKeys \ {3}}]

RECURSIVE SeqsUpTo(_, _)
SeqsUpTo(S, n) ==
    IF n = 0 THEN {<<>>}
    ELSE LET shorter == SeqsUpTo(S, n - 1)
         IN shorter \cup {Append(q, x) : q \in {r \in shorter : Len(r) = n - 1}, x \in S}

\* what a keyring file can parse to
Contents == SeqsUpTo(EntityValues, MaxEntities)

\* a map that was never made, the empty map, and a map with k set to v
NoMap == [x \in {} |-> 0]
NilIndex == [nil |-> TRUE, map |-> NoMap]
Put(m, k, v) == [x \in DOMAIN m \cup {k} |-> IF x = k THEN v ELSE m[x]]
PutIfAbsent(m, k, v) == IF k \in DOMAIN m THEN m ELSE Put(m, k, v)

\* a *openpgp.Entity: the n-th entity of the list the g-th parse built
Ptr(g, n) == [gen |-> g, pos |-> n]

\* fault: a key id or fingerprint already in the index is not overwritten
RECURSIVE IndexSubkeysFirstWins(_, _, _, _)
IndexSubkeysFirstWins(ix, e, ptr, j) ==
    IF j > Len(e.subkeys) THEN ix
    ELSE IF e.subkeys[j] # 0
    THEN IndexSubkeysFirstWins(
             [id |-> PutIfAbsent(ix.id, KeyIdString(e.subkeys[j]), ptr),
              fp |-> PutIfAbsent(ix.fp, e.subkeys[j], ptr)], e, ptr, j + 1)
    ELSE IndexSubkeysFirstWins(ix, e, ptr, j + 1)
\* lines 176-184: the subkeys of one entity, from subkey j on
RECURSIVE IndexSubkeys(_, _, _, _)
IndexSubkeys(ix, e, ptr, j) ==
    IF j > Len(e.subkeys) THEN ix
    ELSE IF e.subkeys[j] # 0
    THEN IndexSubkeys([id |-> Put(ix.id, KeyIdString(e.subkeys[j]), ptr),
                       fp |-> Put(ix.fp, e.subkeys[j], ptr)], e, ptr, j + 1)
    ELSE IndexSubkeys(ix, e, ptr, j + 1)

\* fault: the primary keys are left out of the indexes
IndexPrimaryNone(ix, e, ptr) == ix
\* lines 169-175: the primary key of one entity
IndexPrimary(ix, e, ptr) ==
    IF e.primary # 0
    THEN [id |-> Put(ix.id, KeyIdString(e.primary), ptr),
          fp |-> Put(ix.fp, e.primary, ptr)]
    ELSE ix

\* lines 168-185: the loop over k.Entities, from entity i on
RECURSIVE IndexEntities(_, _, _, _)
IndexEntities(ix, ents, g, i) ==
    IF i > Len(ents) THEN ix
    ELSE IndexEntities(
             IndexSubkeys(IndexPrimary(ix, ents[i], Ptr(g, i)), ents[i], Ptr(g, i), 1),
             ents, g, i + 1)

\* lines 164-165 and the loop: both maps made anew and filled
BuildIndex(ents, g) == IndexEntities([id |-> NoMap, fp |-> NoMap], ents, g, 1)

\* lines 191-210, KeyringFile.Load: the error returned, the entity list left
\* in k.Entities and whether openpgp.ReadKeyRing built a new list
LoadResult(d, ents) ==
    IF d.status = "missing" THEN [err |-> "nil", ents |-> ents, parsed |-> FALSE]
    ELSE IF d.status = "unreadable" THEN [err |-> "EIO", ents |-> ents, parsed |-> FALSE]
    ELSE IF d.status = "unparsable" THEN [err |-> "EFORMAT", ents |-> <<>>, parsed |-> TRUE]
    ELSE [err |-> "nil", ents |-> d.content, parsed |-> TRUE]

\* KeyringFile.Load
KfLoad ==
    /\ gen < MaxParses
    /\ LET r == LoadResult(disk, Entities)
       IN /\ Entities' = r.ents
          /\ gen' = IF r.parsed THEN gen + 1 ELSE gen
          /\ kfErr' = r.err
    /\ lastOp' = "Load"
    /\ UNCHANGED <<disk, indexId, indexFingerprint>>
    /\ UNCHANGED <<cacheVars, ringVars>>

\* KeyringFile.Index
KfIndex ==
    /\ LET ix == BuildIndex(Entities, gen)
       IN /\ indexId' = [nil |-> FALSE, map |-> ix.id]
          /\ indexFingerprint' = [nil |-> FALSE, map |-> ix.fp]
    /\ lastOp' = "Index"
    /\ kfErr' = "nil"
    /\ UNCHANGED <<disk, Entities, gen>>
    /\ UNCHANGED <<cacheVars, ringVars>>

\* lines 152-160, KeyringFile.LoadAndIndex: Load, and Index when Load succeeded
KfLoadAndIndex ==
    /\ gen < MaxParses
    /\ LET r == LoadResult(disk, Entities)
           g == IF r.parsed THEN gen + 1 ELSE gen
           ix == BuildIndex(r.ents, g)
       IN /\ Entities' = r.ents
          /\ gen' = g
          /\ kfErr' = r.err
          /\ IF r.err = "nil"
             THEN /\ indexId' = [nil |-> FALSE, map |-> ix.id]
                  /\ indexFingerprint' = [nil |-> FALSE, map |-> ix.fp]
             ELSE UNCHANGED <<indexId, indexFingerprint>>
    /\ lastOp' = "LoadAndIndex"
    /\ UNCHANGED disk
    /\ UNCHANGED <<cacheVars, ringVars>>

DiskStatuses == {"ok", "missing", "unreadable", "unparsable"}

\* between two calls the file at k.filename is removed, made unreadable,
\* damaged or put back; os.Open (line 193) sees the file as it then is
DiskChange(st) ==
    /\ st # disk.status
    /\ disk' = [disk EXCEPT !.status = st]
    /\ UNCHANGED <<Entities, indexId, indexFingerprint, gen, lastOp, kfErr>>
    /\ UNCHANGED <<cacheVars, ringVars>>

(* -------------------- Keyrings: the files of the aggregate --------------- *)

\* the entities of the aggregate's files also say whether they carry a private
\* key (Entity.PrivateKey != nil)
E1n == [primary |-> 1, subkeys |-> <<>>, priv |-> FALSE]
E1p == [primary |-> 1, subkeys |-> <<>>, priv |-> TRUE]
E3p == [primary |-> 3, subkeys |-> <<2>>, priv |-> TRUE]

\* the files GetPublicKeyrings and GetPgpSecretKeyrings can name
RingDisks ==
    {[status |-> st, content |-> <<>>] : st \in {"missing", "unreadable"}}
    \cup {[status |-> "ok", content |-> c] : c \in {<<E1n>>, <<E1p, E3p>>}}

\* line 31: &KeyringFile{filename, openpgp.EntityList{}, isPublic, nil, nil}
MakeFile(d) ==
    [disk |-> d, Entities |-> <<>>, indexId |-> NilIndex, indexFingerprint |-> NilIndex]

\* MakeKeyrings (lines 28-34): one file for each filename
MakeKeyrings == SeqsUpTo({MakeFile(d) : d \in RingDisks}, MaxFiles)

\* lines 152-160, KeyringFile.LoadAndIndex on a file of the aggregate: the file
\* after the call and the error returned
LoadAndIndex(f) ==
    LET r == LoadResult(f.disk, f.Entities)
        ix == BuildIndex(r.ents, 1)
    IN [file |-> [f EXCEPT
                    !.Entities = r.ents,
                    !.indexId = IF r.err = "nil"
                                THEN [nil |-> FALSE, map |-> ix.id] ELSE @,
                    !.indexFingerprint = IF r.err = "nil"
                                         THEN [nil |-> FALSE, map |-> ix.fp] ELSE @],
        err |-> r.err]

\* lines 116-123, Keyrings.LoadKeyrings from file i on: the files after the
\* loop, the error returned, and how many files LoadAndIndex was called on
RECURSIVE LoadKeyrings(_, _)
LoadKeyrings(v, i) ==
    IF i > Len(v) THEN [v |-> v, err |-> "nil", tried |-> Len(v)]
    ELSE LET r == LoadAndIndex(v[i])
         IN IF r.err # "nil"
            THEN [v |-> [v EXCEPT ![i] = r.file], err |-> r.err, tried |-> i]
            ELSE LoadKeyrings([v EXCEPT ![i] = r.file], i + 1)

\* fault: the error of the secret files is returned when the public files loaded
LoadReturnsEither(perr, serr) == IF perr # "nil" THEN perr ELSE serr
\* lines 109-113: the result of k.LoadKeyrings(k.Secret) is dropped
LoadReturns(perr, serr) == perr

\* lines 104-114, Keyrings.Load
Load ==
    /\ LET pub == IF rings.gpg THEN LoadKeyrings(rings.Public, 1)
                  ELSE [v |-> rings.Public, err |-> "nil", tried |-> 0]
           sec == IF pub.err = "nil" /\ rings.gpg THEN LoadKeyrings(rings.Secret, 1)
                  ELSE [v |-> rings.Secret, err |-> "nil", tried |-> 0]
       IN /\ rings' = [rings EXCEPT !.Public = pub.v, !.Secret = sec.v]
          /\ ringOp' = [op |-> "Load", err |-> LoadReturns(pub.err, sec.err),
                        triedPublic |-> pub.tried, triedSecret |-> sec.tried,
                        secretErr |-> sec.err]
    /\ UNCHANGED <<cacheVars, fileVars>>

\* the *openpgp.Entity an index entry of file f points to
Deref(f, ptr) == f.disk.content[ptr.pos]

\* fault: the private key is not asked for
QualifiesAny(secret, e) == TRUE
\* line 94: !secret || key.PrivateKey != nil
Qualifies(secret, e) == ~secret \/ e.priv

\* "not found": FindKey returns nil
NotFound == [found |-> FALSE, file |-> 0, entity |-> E1n]

\* lines 92-97: the loop over the files of l, from file i on; a nil index has
\* no entry, and Index never stores a nil entity
RECURSIVE FindKeyFrom(_, _, _, _)
FindKeyFrom(l, fp, secret, i) ==
    IF i > Len(l) THEN NotFound
    ELSE IF /\ fp \in DOMAIN l[i].indexFingerprint.map
            /\ Qualifies(secret, Deref(l[i], l[i].indexFingerprint.map[fp]))
    THEN [found |-> TRUE, file |-> i,
          entity |-> Deref(l[i], l[i].indexFingerprint.map[fp])]
    ELSE FindKeyFrom(l, fp, secret, i + 1)

\* fault: the public files are searched as well for a secret key
SearchListBoth(r, secret) == IF secret THEN r.Public \o r.Secret ELSE r.Public
\* lines 86-91: the list FindKey searches
SearchList(r, secret) == IF secret THEN r.Secret ELSE r.Public

\* lines 85-100, Keyrings.FindKey
FindKey(fp, secret) ==
    /\ ringOp' = [op |-> "FindKey", fp |-> fp, secret |-> secret,
                  res |-> FindKeyFrom(SearchList(rings, secret), fp, secret, 1)]
    /\ UNCHANGED rings
    /\ UNCHANGED <<cacheVars, fileVars>>

\* an openpgp.Key: the entity and the public key of it that matched
Key(e, fp) == [entity |-> e, pub |-> fp]
\* the zero value of openpgp.Key
ZeroKey == [entity |-> "nil", pub |-> 0]

\* the usages of a key: a primary key signs, a subkey encrypts
KeyUsage(k) == IF k.pub = k.entity.primary THEN "sign" ELSE "encrypt"

\* the keys of one entity with key id id: the primary key, then the subkeys
EntityKeysById(e, id) ==
    (IF KeyIdString(e.primary) = id THEN <<Key(e, e.primary)>> ELSE <<>>)
    \o SelectSeq([j \in 1..Len(e.subkeys) |-> Key(e, e.subkeys[j])],
                 LAMBDA k : KeyIdString(k.pub) = id)

\* openpgp.EntityList.KeysById
RECURSIVE EntityListKeysById(_, _)
EntityListKeysById(ents, id) ==
    IF ents = <<>> THEN <<>>
    ELSE EntityKeysById(Head(ents), id) \o EntityListKeysById(Tail(ents), id)

\* openpgp.EntityList.KeysByIdUsage: the keys of KeysById that have the usage
EntityListKeysByIdUsage(ents, id, usage) ==
    SelectSeq(EntityListKeysById(ents, id), LAMBDA k : KeyUsage(k) = usage)

\* openpgp.EntityList.DecryptionKeys: the subkeys that have a private key
RECURSIVE EntityListDecryptionKeys(_)
EntityListDecryptionKeys(ents) ==
    IF ents = <<>> THEN <<>>
    ELSE (IF Head(ents).priv
          THEN [j \in 1..Len(Head(ents).subkeys) |-> Key(Head(ents), Head(ents).subkeys[j])]
          ELSE <<>>)
         \o EntityListDecryptionKeys(Tail(ents))

\* make([]openpgp.Key, 10): a slice of length 10
OutLen == 10
MakeOut == [i \in 1..OutLen |-> ZeroKey]

\* for _, ring := range l { out = append(out, ...) }, where rs holds for
\* every ring of l what the lookup in ring.Entities returned
RECURSIVE AppendAll(_, _)
AppendAll(out, rs) ==
    IF rs = <<>> THEN out
    ELSE AppendAll(out \o Head(rs), Tail(rs))

\* lines 53-62, Keyrings.KeysById
KeysById(id) ==
    /\ LET Q(ents) == EntityListKeysById(ents, id)
       IN ringOp' = [op |-> "KeysById", id |-> id, usage |-> "",
                     out |-> AppendAll(
                                AppendAll(MakeOut, [i \in 1..Len(rings.Public) |->
                                                      Q(rings.Public[i].Entities)]),
                                [i \in 1..Len(rings.Secret) |->
                                    Q(rings.Secret[i].Entities)])]
    /\ UNCHANGED rings
    /\ UNCHANGED <<cacheVars, fileVars>>

\* lines 64-73, Keyrings.KeysByIdUsage
KeysByIdUsage(id, usage) ==
    /\ LET Q(ents) == EntityListKeysByIdUsage(ents, id, usage)
       IN ringOp' = [op |-> "KeysByIdUsage", id |-> id, usage |-> usage,
                     out |-> AppendAll(
                                AppendAll(MakeOut, [i \in 1..Len(rings.Public) |->
                                                      Q(rings.Public[i].Entities)]),
                                [i \in 1..Len(rings.Secret) |->
                                    Q(rings.Secret[i].Entities)])]
    /\ UNCHANGED rings
    /\ UNCHANGED <<cacheVars, fileVars>>

\* lines 75-81, Keyrings.DecryptionKeys
DecryptionKeys ==
    /\ LET Q(ents) == EntityListDecryptionKeys(ents)
       IN ringOp' = [op |-> "DecryptionKeys",
                     out |-> AppendAll(MakeOut, [i \in 1..Len(rings.Secret) |->
                                                    Q(rings.Secret[i].Entities)])]
    /\ UNCHANGED rings
    /\ UNCHANGED <<cacheVars, fileVars>>

\* the key ids and the usages the callers ask for
KeyIds == {0, 1}
Usages == {"sign", "encrypt"}

(* ---------------------------- specification ----------------------------- *)

\* a Keyrings made without usage.GpgKeyring: no files (lines 40-43)
NoRings ==
    /\ rings = [gpg |-> FALSE, Public |-> <<>>, Secret |-> <<>>]
    /\ ringOp = [op |-> "none"]

\* MakeKeyrings (lines 28-34): an empty entity list and nil indexes
FileStart ==
    /\ Entities = <<>>
    /\ indexId = NilIndex
    /\ indexFingerprint = NilIndex
    /\ gen = 0
    /\ lastOp = "none"
    /\ kfErr = "nil"

FileInit ==
    /\ disk = [status |-> "missing", content |-> <<>>]
    /\ FileStart

\* NewKeyrings (lines 36-45): an empty map and an unlocked mutex
Init ==
    /\ skbMap = [u \in UserNames |-> NilRef]
    /\ mu = 0
    /\ gKeyrings \in BOOLEAN
    /\ nextRef = 1
    /\ th = [t \in Threads |-> Idle]
    /\ crashed = FALSE
    /\ FileInit
    /\ NoRings

\* the outcomes of the collaborators
LoadOutcomes == {"nil", "ENOENT", "EIO"}
LoadMeOutcomes == {"err"} \cup SubjectNames
SyncedOutcomes == {"err", "none", "S"}
UnlockOutcomes == {"ok", "err"}
AllCkfs == {NilCkf} \cup Ckfs

\* the requests of the threads that run next to each other: every key source
\* wanted, or only the synced key, for a bound or an unbound user
SomeArgs ==
    {s \in SecretKeyArgs : /\ ~s.DeviceKey /\ ~s.SearchKey
                           /\ s.Reason = "sign"
                           /\ s.All # s.SyncedPGPKey
                           /\ s.All = (s.Me # "nil")}
SomeCkfs == {NilCkf, [nil |-> FALSE, dev |-> "k1", active |-> {}]}

\* the cache and its lock, reached by two threads through every route
Next ==
    \/ \E t \in Threads, un \in UserNames : CallLoadSKBKeyring(t, un)
    \/ \E t \in Threads, un \in UserNames : CallGlobalLoad(t, un)
    \/ \E t \in Threads, s \in SomeArgs : CallGetSecretKey(t, s)
    \/ \E t \in Threads, r \in LoadMeOutcomes : ResolveMe(t, r)
    \/ \E t \in Threads : Lock(t)
    \/ \E t \in Threads : Lookup(t)
    \/ \E t \in Threads, e \in LoadOutcomes : LoadFile(t, e)
    \/ \E t \in Threads : Insert(t)
    \/ \E t \in Threads : Unlock(t)
    \/ \E t \in Threads, c \in SomeCkfs : Local(t, c)
    \/ \E t \in Threads, r \in SyncedOutcomes : Synced(t, r)
    \/ \E t \in Threads, u \in UnlockOutcomes : Prompt(t, u)
    \/ \E t \in Threads : Return(t)
    \/ MapFault

Spec == Init /\ [][Next]_vars

\* the steps of thread t inside a call: file loads and collaborators return
\* and the scheduler runs every thread
Progress(t) ==
    \/ \E r \in LoadMeOutcomes : ResolveMe(t, r)
    \/ Lookup(t)
    \/ \E e \in LoadOutcomes : LoadFile(t, e)
    \/ Insert(t)
    \/ Unlock(t)
    \/ \E c \in SomeCkfs : Local(t, c)
    \/ \E r \in SyncedOutcomes : Synced(t, r)
    \/ \E u \in UnlockOutcomes : Prompt(t, u)
    \/ Return(t)

\* Spec under fair scheduling; a thread waiting in k.Lock() gets the mutex if
\* it is free again and again (sync.Mutex hands the mutex to a starving waiter)
Fairness == \A t \in Threads : WF_vars(Progress(t)) /\ SF_vars(Lock(t))

SpecLive == Spec /\ Fairness

\* one thread's calls of the resolver and of LoadSKBKeyring, one after the
\* other, with every request and every answer of the collaborators
NextResolve ==
    \/ \E s \in SecretKeyArgs : CallGetSecretKey(1, s)
    \/ \E un \in UserNames : CallLoadSKBKeyring(1, un)
    \/ \E r \in LoadMeOutcomes : ResolveMe(1, r)
    \/ Lock(1)
    \/ Lookup(1)
    \/ \E e \in LoadOutcomes : LoadFile(1, e)
    \/ Insert(1)
    \/ Unlock(1)
    \/ \E c \in AllCkfs : Local(1, c)
    \/ \E r \in SyncedOutcomes : Synced(1, r)
    \/ \E u \in UnlockOutcomes : Prompt(1, u)
    \/ Return(1)

InitResolve == Init /\ gKeyrings

SpecResolve == InitResolve /\ [][NextResolve]_vars

CacheInit ==
    /\ skbMap = [u \in UserNames |-> NilRef]
    /\ mu = 0
    /\ gKeyrings = TRUE
    /\ nextRef = 1
    /\ th = [t \in Threads |-> Idle]
    /\ crashed = FALSE

InitFile ==
    /\ CacheInit
    /\ disk \in [status : DiskStatuses, content : Contents]
    /\ FileStart
    /\ NoRings

\* one keyring file under Load, Index and LoadAndIndex, for every file on disk
NextFile ==
    \/ KfLoad
    \/ KfIndex
    \/ KfLoadAndIndex
    \/ \E st \in DiskStatuses : DiskChange(st)

SpecFile == InitFile /\ [][NextFile]_vars

\* NewKeyrings (lines 36-45) for every configuration of public and secret files
InitRings ==
    /\ CacheInit
    /\ FileInit
    /\ \/ rings = [gpg |-> FALSE, Public |-> <<>>, Secret |-> <<>>]
       \/ rings \in [gpg : {TRUE}, Public : MakeKeyrings, Secret : MakeKeyrings]
    /\ ringOp = [op |-> "none"]

\* the operations of the aggregate, in any order
NextRings ==
    \/ Load
    \/ \E fp \in Fps, secret \in BOOLEAN : FindKey(fp, secret)
    \/ \E id \in KeyIds : KeysById(id)
    \/ \E id \in KeyIds, usage \in Usages : KeysByIdUsage(id, usage)
    \/ DecryptionKeys

SpecRings == InitRings /\ [][NextRings]_vars

(* ------------------------------- the claims ----------------------------- *)

\* GetSecretKeyLocked has returned (ret, which, err) to GetSecretKey
LockedReturned(t) == th[t].op = "GetSecretKey" /\ th[t].pc = "prompt"

\* the per-user keyring was loaded for the call of thread t
KeyringLoaded(t) == th[t].err = "nil" /\ th[t].f # NilRef

\* the key family was asked and named a key of the current device that the
\* keyring holds
DeviceKeyPresent(t) ==
    /\ KeyringLoaded(t)
    /\ ~th[t].ckf.nil
    /\ th[t].ckf.dev \in Content(th[t].f)

\* C1: when the device key is wanted (All or DeviceKey), the per-user keyring
\* loaded, and the key family names a current-device key that the keyring
\* holds, GetSecretKeyLocked returns that key with no error, whatever the local
\* search would find.
C1_DeviceKeyFirst ==
    \A t \in Threads :
        (/\ LockedReturned(t)
         /\ (th[t].ska.All \/ th[t].ska.DeviceKey)
         /\ DeviceKeyPresent(t))
        => /\ th[t].ret = th[t].ckf.dev
           /\ th[t].rerr = "nil"
           /\ th[t].src = "device"

\* a request for every source whose device key is found although the local
\* search has another key to offer
C1_Witness ==
    \E t \in Threads :
        /\ LockedReturned(t)
        /\ th[t].ska.All
        /\ DeviceKeyPresent(t)
        /\ th[t].ckf.dev = "k1"
        /\ th[t].ckf.active = {"k2"}
        /\ th[t].ret = "k1"

\* the provenance each step is said to return
Provenance(src) ==
    IF src = "device" THEN "device key"
    ELSE IF src = "local" THEN "local keyring"
    ELSE "your Keybase.io passphrase"

\* C2: every successful GetSecretKeyLocked returns the provenance of the
\* step that produced the key ("device key", "local keyring", or the
\* passphrase phrasing for the synced key), never the empty string.
C2_ProvenanceNamesStep ==
    \A t \in Threads :
        (LockedReturned(t) /\ th[t].rerr = "nil" /\ th[t].ret # "none")
        => /\ th[t].which = Provenance(th[t].src)
           /\ th[t].which # ""

\* C3: a request with only SyncedPGPKey set, for a resolved user whose synced
\* key lookup did not produce a key or an error, ends with NoSecretKeyError and
\* no key, and neither the device key nor the local search was consulted.
C3_OnlySyncedIgnoresLocal ==
    \A t \in Threads :
        (/\ LockedReturned(t)
         /\ th[t].ska.SyncedPGPKey
         /\ ~th[t].ska.All /\ ~th[t].ska.DeviceKey /\ ~th[t].ska.SearchKey
         /\ th[t].rerr # "LoadMeError"
         /\ th[t].sync \notin {"S", "err"})
        => /\ th[t].rerr = "NoSecretKeyError"
           /\ th[t].ret = "none"
           /\ th[t].asked \cap {"device", "search"} = {}

\* such a request for a user whose keyring holds the device key and a key the
\* local search would find
C3_Witness ==
    \E t \in Threads :
        /\ LockedReturned(t)
        /\ th[t].ska.SyncedPGPKey
        /\ ~th[t].ska.All /\ ~th[t].ska.DeviceKey /\ ~th[t].ska.SearchKey
        /\ DeviceKeyPresent(t)
        /\ th[t].ckf.active # {}
        /\ th[t].sync = "none"
        /\ th[t].rerr = "NoSecretKeyError"

\* C4: the synced key is consulted first: a key of the local keyring is
\* returned to a request that also wants the synced key only after the synced
\* lookup was made and yielded nothing.
C4_SyncedBeforeLocal ==
    \A t \in Threads :
        (/\ LockedReturned(t)
         /\ (th[t].ska.All \/ th[t].ska.SyncedPGPKey)
         /\ th[t].src = "local")
        => th[t].sync = "none"

\* C5: GetSecretKeyLocked ends in exactly one of: a key with a nil error;
\* NoSecretKeyError with no key; the error of LoadMe or of the synced-key
\* provider with no key.
C5_Outcomes ==
    \A t \in Threads :
        LockedReturned(t)
        => \/ th[t].ret # "none" /\ th[t].rerr = "nil"
           \/ th[t].ret = "none" /\ th[t].rerr = "NoSecretKeyError"
           \/ /\ th[t].ret = "none" /\ th[t].rerr = "LoadMeError"
              /\ "LoadMe" \in th[t].asked /\ th[t].f = NilRef
           \/ /\ th[t].ret = "none" /\ th[t].rerr = "SyncError"
              /\ th[t].sync = "err"

\* a call that found nothing: every source wanted, the keyring loaded, no key
\* in it for the key family, and no synced key
C5_Witness ==
    \E t \in Threads :
        /\ LockedReturned(t)
        /\ th[t].ska.All
        /\ KeyringLoaded(t)
        /\ ~th[t].ckf.nil
        /\ th[t].sync = "none"
        /\ th[t].rerr = "NoSecretKeyError"

\* the LoadSKBKeyring call of thread t, made directly or by the resolver, has
\* returned
LoadReturned(t) ==
    /\ th[t].un # ""
    /\ \/ th[t].op \in DirectOps /\ th[t].pc = "done" /\ th[t].err # "NoKeyringsError"
       \/ th[t].op \in ResolverOps /\ th[t].pc \in {"local", "synced", "prompt", "done"}

\* C6: two LoadSKBKeyring(u) calls for a non-empty u that both started with no
\* entry for u in the cache and both returned without error received the same
\* file, and exactly one of them loaded it.
C6_OneLoad ==
    \A t1, t2 \in Threads :
        (/\ t1 # t2
         /\ LoadReturned(t1) /\ LoadReturned(t2)
         /\ th[t1].un = th[t2].un
         /\ th[t1].first /\ th[t2].first
         /\ th[t1].err = "nil" /\ th[t2].err = "nil")
        => /\ th[t1].f = th[t2].f
           /\ (th[t1].loaded = "none") # (th[t2].loaded = "none")

\* thread t is between k.Lock() and k.Unlock() of LoadSKBKeyring
InSection(t) == th[t].pc \in {"lookup", "load", "insert", "unlock"}

\* C7: on every route to the cache map the same mutex is held: no two threads
\* are inside the lookup/load/insert section of LoadSKBKeyring at once.
C7_OneThreadInSection ==
    \A t1, t2 \in Threads : (InSection(t1) /\ InSection(t2)) => t1 = t2

\* what C8 says of one step of thread t inside LoadSKBKeyring
C8_Step(t) ==
    /\ (th[t].pc = "lookup" /\ th'[t].pc # "lookup")
       => IF skbMap[th[t].un] # NilRef
          THEN /\ th'[t].f = skbMap[th[t].un]
               /\ th'[t].err = "nil"
               /\ th'[t].pc = "unlock"
               /\ nextRef' = nextRef
          ELSE th[t].un # "" => th'[t].pc = "load"
    /\ (th[t].pc = "load" /\ th'[t].pc # "load")
       => IF th'[t].loaded \in {"nil", "ENOENT"}
          THEN /\ th'[t].pc = "insert"
          ELSE /\ th'[t].pc = "unlock"
               /\ th'[t].err = "EIO"
               /\ skbMap' = skbMap
    /\ (th[t].pc = "insert" /\ th'[t].pc # "insert")
       => /\ skbMap' = [skbMap EXCEPT ![th[t].un] = th[t].f]
          /\ th'[t].err = "nil"
          /\ th'[t].f = th[t].f
          /\ th'[t].pc = "unlock"

\* C8: a load that succeeds or finds no file returns nil and puts the file in
\* the map under the username; a lookup that finds an entry returns it with no
\* load; any other load error is returned, nothing is put in the map, and a
\* lookup that finds no entry for a non-empty username loads the file.
C8_CacheByOutcome == [][\A t \in Threads : C8_Step(t)]_vars

\* a call is answered from the cache with the file of a missing keyring while
\* another call has just failed to load
C8_Witness ==
    \E t1, t2 \in Threads :
        /\ th[t1].pc = "unlock" /\ th[t1].hit /\ th[t1].f.empty
        /\ th[t2].pc = "done" /\ th[t2].loaded = "EIO" /\ th[t2].err = "EIO"

\* C9: LoadSKBKeyring("") ends with NoUsernameError and no file, without
\* loading a file and without putting anything in the map, and the map never
\* has an entry for the empty username.
C9_EmptyUsername ==
    /\ skbMap[""] = NilRef
    /\ \A t \in Threads :
          (th[t].pc = "unlock" /\ th[t].un = "")
          => /\ th[t].err = "NoUsernameError"
             /\ th[t].f = NilRef
             /\ th[t].loaded = "none"
             /\ ~th[t].inserted

\* the empty username is looked up while the cache holds another user's file
C9_Witness ==
    \E t \in Threads :
        /\ th[t].pc = "unlock" /\ th[t].un = ""
        /\ th[t].err = "NoUsernameError"
        /\ skbMap["a"] # NilRef

\* the indexes were built by Index from the entity list that Load left
IndexCurrent ==
    \/ lastOp = "Index"
    \/ lastOp = "LoadAndIndex" /\ kfErr = "nil"

\* entity e has a primary key or a non-nil subkey with key id id / fingerprint fp
CarriesId(e, id) ==
    \/ e.primary # 0 /\ KeyIdString(e.primary) = id
    \/ \E j \in 1..Len(e.subkeys) : e.subkeys[j] # 0 /\ KeyIdString(e.subkeys[j]) = id
CarriesFp(e, fp) ==
    \/ e.primary = fp
    \/ \E j \in 1..Len(e.subkeys) : e.subkeys[j] = fp

\* C10 as stated: after Load and Index, every non-nil subkey's key id and
\* fingerprint are mapped by the indexes to the subkey's own parent entity.
C10_SubkeyToOwnParent ==
    IndexCurrent =>
        \A i \in 1..Len(Entities) : \A j \in 1..Len(Entities[i].subkeys) :
            LET fp == Entities[i].subkeys[j]
            IN fp # 0 =>
                /\ KeyIdString(fp) \in DOMAIN indexId.map
                /\ indexId.map[KeyIdString(fp)] = Ptr(gen, i)
                /\ fp \in DOMAIN indexFingerprint.map
                /\ indexFingerprint.map[fp] = Ptr(gen, i)

\* C10 amended: after Load and Index, every non-nil subkey's key id and
\* fingerprint are mapped to an entity of the current entity list that carries
\* that key id (fingerprint) on its primary key or on a non-nil subkey: the last
\* such entity of the list, which is the subkey's own parent when no later
\* entity carries the same key id (fingerprint).
C10_SubkeyToLastCarrier ==
    IndexCurrent =>
        \A i \in 1..Len(Entities) : \A j \in 1..Len(Entities[i].subkeys) :
            LET fp == Entities[i].subkeys[j]
                id == KeyIdString(fp)
            IN fp # 0 =>
                /\ ~indexId.nil /\ ~indexFingerprint.nil
                /\ id \in DOMAIN indexId.map
                /\ fp \in DOMAIN indexFingerprint.map
                /\ LET p == indexId.map[id]
                       q == indexFingerprint.map[fp]
                   IN /\ p.gen = gen /\ q.gen = gen
                      /\ p.pos \in i..Len(Entities)
                      /\ q.pos \in i..Len(Entities)
                      /\ CarriesId(Entities[p.pos], id)
                      /\ CarriesFp(Entities[q.pos], fp)
                      /\ \A k \in (p.pos + 1)..Len(Entities) : ~CarriesId(Entities[k], id)
                      /\ \A k \in (q.pos + 1)..Len(Entities) : ~CarriesFp(Entities[k], fp)

\* a loaded and indexed file in which a subkey of the first entity has the key
\* id of a key of the second entity, and another subkey is alone with its id
C10_Witness ==
    /\ lastOp = "LoadAndIndex" /\ kfErr = "nil"
    /\ Len(Entities) = 2
    /\ Entities[1].subkeys = <<1>>
    /\ Entities[2].subkeys = <<2>>
    /\ Entities[2].primary = 3
    /\ indexId.map[1] = Ptr(gen, 2)
    /\ indexFingerprint.map[1] = Ptr(gen, 1)
    /\ indexId.map[0] = Ptr(gen, 2)

\* what C12 says of one call of Load or LoadAndIndex on the file as it is on disk
C12_Step ==
    (disk' = disk /\ lastOp' \in {"Load", "LoadAndIndex"}) =>
        /\ disk.status = "missing" =>
              /\ kfErr' = "nil"
              /\ Entities' = <<>>
              /\ lastOp' = "LoadAndIndex" =>
                    /\ indexId' = [nil |-> FALSE, map |-> NoMap]
                    /\ indexFingerprint' = [nil |-> FALSE, map |-> NoMap]
        /\ disk.status \in {"unreadable", "unparsable"} =>
              /\ kfErr' # "nil"
              /\ Entities' = <<>>
              /\ indexId' = indexId
              /\ indexFingerprint' = indexFingerprint

\* C12: Load on a path that does not exist returns nil and leaves the entity
\* list empty, LoadAndIndex on it returns nil and leaves both indexes non-nil
\* and empty; on a file that cannot be opened or parsed Load returns an error,
\* the entity list is empty and Index does not run.
C12_MissingOrBroken == [][C12_Step]_vars

\* the secret files whose fingerprint index maps fp to an entity that carries
\* a private key
SecretHolders(fp) ==
    {i \in 1..Len(rings.Secret) :
        /\ fp \in DOMAIN rings.Secret[i].indexFingerprint.map
        /\ Deref(rings.Secret[i], rings.Secret[i].indexFingerprint.map[fp]).priv}

\* C11: FindKey(fp, true) never returns an entity without a private key: a
\* secret file that indexes such an entity under fp is passed over, and the
\* result is the entity of the first secret file that indexes under fp an
\* entity with a private key, or not-found when there is none.
C11_SecretHasPrivate ==
    (ringOp.op = "FindKey" /\ ringOp.secret) =>
        LET S == SecretHolders(ringOp.fp)
        IN IF S = {}
           THEN ~ringOp.res.found
           ELSE /\ ringOp.res.found
                /\ ringOp.res.entity.priv
                /\ ringOp.res.file \in S
                /\ \A i \in S : ringOp.res.file <= i
                /\ ringOp.res.entity =
                       Deref(rings.Secret[ringOp.res.file],
                             rings.Secret[ringOp.res.file].indexFingerprint.map[ringOp.fp])

\* the first secret file indexes under the fingerprint an entity without a
\* private key, the second one an entity with a private key
C11_Witness ==
    /\ ringOp.op = "FindKey" /\ ringOp.secret /\ ringOp.fp = 1
    /\ Len(rings.Secret) = 2
    /\ 1 \in DOMAIN rings.Secret[1].indexFingerprint.map
    /\ ~Deref(rings.Secret[1], rings.Secret[1].indexFingerprint.map[1]).priv
    /\ ringOp.res.found /\ ringOp.res.file = 2 /\ ringOp.res.entity = E1p

\* LoadAndIndex fails on file f: the file is there and cannot be opened or parsed
Fails(f) == f.disk.status \in {"unreadable", "unparsable"}
\* the error it then returns
ErrorOf(f) == IF f.disk.status = "unreadable" THEN "EIO" ELSE "EFORMAT"
\* LoadAndIndex was never called on file f
Untouched(f) == f = MakeFile(f.disk)
\* the public files that fail to load
FailingPublic == {i \in 1..Len(rings.Public) : Fails(rings.Public[i])}

\* C13: Keyrings.Load returns an error exactly when a public file fails to
\* load: it returns the error of the first such file, having loaded no later
\* public file and no secret file; when every public file loads it returns nil
\* whatever the secret files do.
C13_LoadErrIsPublicErr ==
    ringOp.op = "Load" =>
        IF FailingPublic = {}
        THEN ringOp.err = "nil"
        ELSE \E i \in FailingPublic :
                /\ \A j \in FailingPublic : i <= j
                /\ ringOp.err = ErrorOf(rings.Public[i])
                /\ ringOp.triedPublic = i
                /\ ringOp.triedSecret = 0
                /\ \A j \in (i + 1)..Len(rings.Public) : Untouched(rings.Public[j])
                /\ \A j \in 1..Len(rings.Secret) : Untouched(rings.Secret[j])

\* every public file loaded, a secret file failed, and Load returned nil
C13_Witness ==
    /\ ringOp.op = "Load"
    /\ Len(rings.Public) = 2 /\ FailingPublic = {}
    /\ rings.Public[2].Entities # <<>>
    /\ Len(rings.Secret) >= 1 /\ Fails(rings.Secret[1])
    /\ ringOp.secretErr = "EIO"
    /\ ringOp.err = "nil"

\* LoadAndIndex ran on file f and succeeded
LoadedAndIndexed(f) ==
    /\ ~f.indexId.nil /\ ~f.indexFingerprint.nil
    /\ f.Entities = f.disk.content

\* C14: when every public file loads, Keyrings.Load calls LoadAndIndex on every
\* secret file: a secret file that fails to load keeps no other secret file,
\* before or after it in the list, from being loaded and indexed.
C14_EverySecretFileTried ==
    (ringOp.op = "Load" /\ FailingPublic = {} /\ rings.gpg) =>
        /\ ringOp.triedSecret = Len(rings.Secret)
        /\ \A j \in 1..Len(rings.Secret) :
               ~Fails(rings.Secret[j]) => LoadedAndIndexed(rings.Secret[j])

\* the concatenation of a sequence of sequences
RECURSIVE Flatten(_)
Flatten(ss) == IF ss = <<>> THEN <<>> ELSE Head(ss) \o Flatten(Tail(ss))

\* what the entity list of every file of l answers to the lookup of ringOp
LookupResults(l) ==
    [i \in 1..Len(l) |->
        IF ringOp.op = "KeysById"
        THEN EntityListKeysById(l[i].Entities, ringOp.id)
        ELSE EntityListKeysByIdUsage(l[i].Entities, ringOp.id, ringOp.usage)]

\* C15: KeysById and KeysByIdUsage return exactly the concatenation of the
\* per-file results, the public files first and then the secret files, each in
\* configured order, with nothing else in it (empty when no file has a match).
C15_FanOutIsConcatenation ==
    ringOp.op \in {"KeysById", "KeysByIdUsage"} =>
        ringOp.out = Flatten(LookupResults(rings.Public))
                     \o Flatten(LookupResults(rings.Secret))

\* the decryption keys of the entity list of every file of l
DecryptionResults(l) ==
    [i \in 1..Len(l) |-> EntityListDecryptionKeys(l[i].Entities)]

\* C16: DecryptionKeys returns the decryption keys of every public file, in
\* order, followed by those of every secret file, in order.
C16_DecryptionKeysOfAllFiles ==
    ringOp.op = "DecryptionKeys" =>
        ringOp.out = Flatten(DecryptionResults(rings.Public))
                     \o Flatten(DecryptionResults(rings.Secret))

\* GetSecretKey has returned (key, err) to its caller
SecretKeyReturned(t) == th[t].op = "GetSecretKey" /\ th[t].pc = "done"

\* C17: GetSecretKey resolves once; it calls PromptAndUnlock exactly once when
\* the resolution gave a key and no error, with the reason of the request and
\* the provenance the resolver returned, and returns its error unchanged; it
\* never calls it when the resolution failed, whose error it then returns.
C17_UnlockOnce ==
    \A t \in Threads :
        SecretKeyReturned(t) =>
            /\ th[t].resolves = 1
            /\ IF th[t].rerr = "nil" /\ th[t].ret # "none"
               THEN /\ th[t].prompts = 1
                    /\ th[t].preason = th[t].ska.Reason
                    /\ th[t].pwhich = th[t].which
                    /\ th[t].uout = "err" => (th[t].kerr = "UnlockError" /\ th[t].key = "none")
                    /\ th[t].uout = "ok" => (th[t].kerr = "nil" /\ th[t].key = th[t].ret)
               ELSE /\ th[t].prompts = 0
                    /\ th[t].kerr = th[t].rerr
                    /\ th[t].key = "none"

\* the synced key was resolved for a decryption and the unlock failed
C17_Witness ==
    \E t \in Threads :
        /\ SecretKeyReturned(t)
        /\ th[t].ska.Reason = "decrypt"
        /\ th[t].ret = "S"
        /\ th[t].pwhich = "your Keybase.io passphrase"
        /\ th[t].uout = "err"
        /\ th[t].kerr = "UnlockError"
        /\ th[t].prompts = 1

\* C18: when the request names no user and LoadMe fails, GetSecretKeyLocked
\* returns that error at once: LoadSKBKeyring is not called and the synced-key
\* provider is not contacted; when the synced-key provider is consulted and
\* fails, its error is returned, not NoSecretKeyError.
C18_FatalErrors ==
    \A t \in Threads :
        (th[t].op = "GetSecretKey" /\ th[t].pc \in {"prompt", "done"}) =>
            /\ (th[t].ska.Me = "nil" /\ "LoadMe" \in th[t].asked) =>
                  /\ th[t].rerr = "LoadMeError"
                  /\ th[t].ret = "none"
                  /\ th[t].asked = {"LoadMe"}
                  /\ th[t].un = "" /\ th[t].f = NilRef /\ th[t].kmu = "free"
                  /\ th[t].loaded = "none" /\ ~th[t].hit
                  /\ th[t].pc = "done" => (th[t].kerr = "LoadMeError" /\ th[t].prompts = 0)
            /\ th[t].sync = "err" =>
                  /\ th[t].rerr = "SyncError"
                  /\ th[t].ret = "none"
                  /\ th[t].pc = "done" => (th[t].kerr = "SyncError" /\ th[t].prompts = 0)

\* the keyring was loaded, no local key was found, and the provider failed
C18_Witness ==
    \E t \in Threads :
        /\ LockedReturned(t)
        /\ KeyringLoaded(t)
        /\ "search" \in th[t].asked
        /\ th[t].sync = "err"
        /\ th[t].rerr = "SyncError"

\* the load of the per-user keyring failed in the call of thread t (a missing
\* file is not a failure)
KeyringLoadFailed(t) == th[t].loaded \notin {"none", "nil", "ENOENT"}

\* the key family was asked for the key of the current device and failed
DeviceLookupFailed(t) == "device" \in th[t].asked /\ th[t].ckf.dev = "err"

\* C19: apart from a missing file, which is an empty keyring, every error of a
\* file load or of a collaborator reaches the caller of the operation it
\* occurred in: the load error of the per-user keyring, the error of the
\* device-key identifier lookup, of the synced-key fetch, of the subject load
\* and of the unlock are the error GetSecretKey returns, and the load error
\* is the error LoadSKBKeyring returns.
C19_NoErrorDropped ==
    \A t \in Threads :
        /\ SecretKeyReturned(t) =>
              /\ KeyringLoadFailed(t) => th[t].kerr = th[t].loaded
              /\ DeviceLookupFailed(t) => th[t].kerr = "DeviceKeyError"
              /\ th[t].sync = "err" => th[t].kerr = "SyncError"
              /\ (th[t].ska.Me = "nil" /\ "LoadMe" \in th[t].asked)
                    => th[t].kerr = "LoadMeError"
              /\ th[t].uout = "err" => th[t].kerr = "UnlockError"
        /\ (th[t].op \in DirectOps /\ th[t].pc = "done" /\ KeyringLoadFailed(t))
              => th[t].err = th[t].loaded

\* GetSecretKeyLocked has returned, and in it the per-user keyring could not
\* be loaded or the user had no computed key family
LocalUnavailable(t) ==
    /\ LockedReturned(t)
    /\ th[t].un # ""
    /\ \/ KeyringLoadFailed(t)
       \/ KeyringLoaded(t) /\ "ckf" \in th[t].asked /\ th[t].ckf.nil

\* what C20 says of the local steps: the load error is not the result, and
\* neither the device key nor the local search was consulted
LocalStepsSkipped(t) ==
    /\ KeyringLoadFailed(t) => th[t].rerr # th[t].loaded
    /\ th[t].asked \cap {"device", "search"} = {}
    /\ th[t].src \notin {"device", "local"}

\* C20 as stated: when the per-user keyring cannot be loaded or there is no
\* computed key family, the load error is not the result, the device-key
\* lookup and the local search are skipped, and the call ends with the synced
\* key if it is wanted and found and with NoSecretKeyError otherwise.
C20_SkipToSyncedOrNoKey ==
    \A t \in Threads :
        LocalUnavailable(t) =>
            /\ LocalStepsSkipped(t)
            /\ IF UseSyncedPGPKey(th[t].ska) /\ th[t].sync = "S"
               THEN th[t].ret = "S" /\ th[t].rerr = "nil"
               ELSE th[t].ret = "none" /\ th[t].rerr = "NoSecretKeyError"

\* C20 amended: when the per-user keyring cannot be loaded or there is no
\* computed key family, the load error is not the result, the device-key
\* lookup and the local search are skipped, and the call ends with the synced
\* key if it is wanted and found, with the error of the synced-key provider if
\* it is wanted and the provider fails, and with NoSecretKeyError otherwise.
C20_SkipToSynced ==
    \A t \in Threads :
        LocalUnavailable(t) =>
            /\ LocalStepsSkipped(t)
            /\ IF UseSyncedPGPKey(th[t].ska) /\ th[t].sync = "S"
               THEN th[t].ret = "S" /\ th[t].rerr = "nil"
               ELSE IF UseSyncedPGPKey(th[t].ska) /\ th[t].sync = "err"
               THEN th[t].ret = "none" /\ th[t].rerr = "SyncError"
               ELSE th[t].ret = "none" /\ th[t].rerr = "NoSecretKeyError"

\* the keyring of a user failed to load for a request that wants every source,
\* and the synced key was returned
C20_Witness ==
    \E t \in Threads :
        /\ LocalUnavailable(t)
        /\ th[t].ska.All
        /\ th[t].loaded = "EIO"
        /\ th[t].ret = "S" /\ th[t].rerr = "nil"

\* the device step of the call of thread t produced a key: the key family was
\* asked for the key of the current device and named a key the keyring holds
DeviceStepGaveKey(t) ==
    /\ "device" \in th[t].asked
    /\ th[t].ckf.dev \in Content(th[t].f)

\* the local search ran and found a key of the keyring active in the key family
SearchStepGaveKey(t) ==
    /\ "search" \in th[t].asked
    /\ Content(th[t].f) \cap th[t].ckf.active # {}

HoldsLock(t) == mu = t \/ th[t].kmu = "held"

\* thread t is in GetSecretKey after LoadSKBKeyring returned: at the query of
\* the computed key family, at the synced-key provider, or at the unlock
AtCollaborator(t) ==
    th[t].op = "GetSecretKey" /\ th[t].pc \in {"local", "synced", "prompt"}

\* C22: in GetSecretKey the lock LoadSKBKeyring took is released before the
\* computed key family is queried, before the synced-key provider is
\* contacted and before the unlock is asked for, and the resolver holds no
\* lock before LoadSKBKeyring either: a thread at a collaborator holds no
\* mutex another thread's cache lookup waits for.
C22_NoLockAtCollaborator ==
    \A t \in Threads :
        /\ AtCollaborator(t) => ~HoldsLock(t)
        /\ (th[t].op = "GetSecretKey" /\ th[t].pc \in {"me", "done"}) => ~HoldsLock(t)
        /\ HoldsLock(t) => InSection(t)

\* one thread is at the unlock prompt after its keyring was loaded while the
\* other is inside its cache lookup, holding the mutex
C22_Witness ==
    \E t1, t2 \in Threads :
        /\ th[t1].op = "GetSecretKey" /\ th[t1].pc = "prompt"
        /\ th[t1].loaded = "nil" /\ th[t1].ret = "k1"
        /\ th[t2].op = "LoadSKBKeyring" /\ th[t2].pc = "lookup"
        /\ mu = t2

\* the fingerprints of the primary keys and of the non-nil subkeys of the
\* entity list, and their key ids
ListedFps ==
    ({Entities[i].primary : i \in 1..Len(Entities)}
     \cup UNION {{Entities[i].subkeys[j] : j \in 1..Len(Entities[i].subkeys)} :
                    i \in 1..Len(Entities)})
    \ {0}
ListedIds == {KeyIdString(fp) : fp \in ListedFps}

\* p points to an entity of the current entity list
InCurrentList(p) == p.gen = gen /\ p.pos \in 1..Len(Entities)

\* the indexes hold exactly the key ids and fingerprints of the entity list,
\* each mapped to an entity of the list that carries it
IndexesExact ==
    /\ ~indexId.nil /\ ~indexFingerprint.nil
    /\ DOMAIN indexId.map = ListedIds
    /\ DOMAIN indexFingerprint.map = ListedFps
    /\ \A id \in DOMAIN indexId.map :
          /\ InCurrentList(indexId.map[id])
          /\ CarriesId(Entities[indexId.map[id].pos], id)
    /\ \A fp \in DOMAIN indexFingerprint.map :
          /\ InCurrentList(indexFingerprint.map[fp])
          /\ CarriesFp(Entities[indexFingerprint.map[fp].pos], fp)

\* what C23 says of one step of a KeyringFile
C23_Step ==
    /\ lastOp = "none" => (indexId.nil /\ indexFingerprint.nil)
    /\ (indexId.nil /\ ~indexId'.nil) => lastOp' \in {"Index", "LoadAndIndex"}
    /\ (indexFingerprint.nil /\ ~indexFingerprint'.nil)
          => lastOp' \in {"Index", "LoadAndIndex"}
    /\ lastOp' = "Load" => (indexId' = indexId /\ indexFingerprint' = indexFingerprint)
    /\ (lastOp' = "LoadAndIndex" /\ kfErr' = "nil") => IndexesExact'

\* C23: under any sequence of Load, Index and LoadAndIndex both indexes are
\* nil until Index first runs, and after every successful LoadAndIndex they
\* hold exactly the key ids and fingerprints of the primary keys and non-nil
\* subkeys of the current entity list, each mapped to an entity of that list:
\* no entry of an earlier load is left and none is missing.
C23_IndexesFollowEntities == [][C23_Step]_vars

\* a second parse replaced the entity list, and the indexes point to entities
\* of the new list only
C23_Witness ==
    /\ lastOp = "LoadAndIndex" /\ kfErr = "nil"
    /\ gen = 2
    /\ Len(Entities) = 2
    /\ Entities[1].subkeys # <<>>
    /\ Entities[2].primary # 0
    /\ IndexesExact
    /\ indexFingerprint.map[Entities[2].primary] = Ptr(2, 2)

\* the files of list l whose fingerprint index maps fp to an entity that meets
\* the constraint: any entity, or for a secret lookup one with a private key
Matching(l, fp, secret) ==
    {i \in 1..Len(l) :
        /\ fp \in DOMAIN l[i].indexFingerprint.map
        /\ (secret => Deref(l[i], l[i].indexFingerprint.map[fp]).priv)}

\* C24: FindKey(fp, secret) looks at the secret files only when secret is set
\* and at the public files only when it is not, in configured order, and
\* returns the entity the first matching file indexes under fp; when no file
\* matches, also because nothing was loaded or indexed, it returns not-found.
C24_FirstMatchInSelectedList ==
    ringOp.op = "FindKey" =>
        LET l == IF ringOp.secret THEN rings.Secret ELSE rings.Public
            M == Matching(l, ringOp.fp, ringOp.secret)
        IN IF M = {}
           THEN ringOp.res = NotFound
           ELSE /\ ringOp.res.found
                /\ ringOp.res.file \in M
                /\ \A i \in M : ringOp.res.file <= i
                /\ ringOp.res.entity =
                       Deref(l[ringOp.res.file],
                             l[ringOp.res.file].indexFingerprint.map[ringOp.fp])

\* a public lookup passes the first public file, loaded from a missing file,
\* and returns the entity of the second, although a secret file has another
\* entity under the fingerprint
C24_Witness ==
    /\ ringOp.op = "FindKey" /\ ~ringOp.secret /\ ringOp.fp = 1
    /\ Len(rings.Public) = 2 /\ Len(rings.Secret) >= 1
    /\ ~rings.Public[1].indexFingerprint.nil
    /\ rings.Public[1].Entities = <<>>
    /\ rings.Public[2].Entities = <<E1n>>
    /\ rings.Secret[1].Entities = <<E1p, E3p>>
    /\ ringOp.res = [found |-> TRUE, file |-> 2, entity |-> E1n]

\* what C26 says of one step: an entry of the map is neither removed nor
\* replaced
C26_Step ==
    \A u \in UserNames : skbMap[u] # NilRef => skbMap'[u] = skbMap[u]

\* C26: the map never has an entry for the empty username, and an entry, once
\* made, is never removed or replaced, so that every later LoadSKBKeyring for
\* the username returns the same file.
C26_CacheOnlyGrows == [][skbMap[""] = NilRef /\ C26_Step]_vars

\* C25: under fair scheduling, with file loads and collaborators that return,
\* every call of LoadSKBKeyring and of GetSecretKey returns, also when
\* resolver calls and direct calls run next to each other: a thread that is in
\* a call is later out of it (unless the runtime stopped the process, or the
\* run has constructed all the files the model allows).
C25_EveryCallReturns ==
    \A t \in Threads :
        (th[t].pc # "idle") ~> (th[t].pc = "idle" \/ crashed \/ nextRef > MaxRefs)

====
